---------------------------- MODULE Spec2Model ----------------------------
(***************************************************************************)
(* A model of src/src/App.tsx: the preview renderer parseForDisplay and   *)
(* the Word export generateDocx.                                           *)
(*                                                                         *)
(* A string is a sequence of symbols.  A symbol is a one-character string, *)
(* except that a fixed piece of markup the program writes (a tag, an       *)
(* entity, a placeholder token) is kept as one symbol.  None of these      *)
(* pieces contains "$", a newline or a carriage return, so the scans treat *)
(* each of them as an ordinary character.                                  *)
(***************************************************************************)
EXTENDS Integers, Sequences, FiniteSets, TLC

VARIABLES
    input,                  \* the textarea's content
    op,                     \* "none" | "display" | "docx"
    pc,                     \* position inside the running function
    text,                   \* the string the regex scans
    lastIndex,              \* 0-based, as in the code
    spans,                  \* what the scan has cut out of text so far
    result,                 \* parseForDisplay's result string
    items,                  \* generateDocx's ContentItem[]
    itemIdx,                \* how many items the for-of loop has consumed
    paragraphs,
    currentParagraphItems,
    mathPlaceholders,       \* Map in insertion order: Seq of <<key, value>>
    placeholderIndex,
    blob,                   \* Packer.toBlob's container
    returned,               \* the container generateDocx resolves with
    zipOpened,              \* whether JSZip.loadAsync was called
    postStatus              \* how the post-processing of the archive went

vars == <<input, op, pc, text, lastIndex, spans, result, items, itemIdx,
          paragraphs, currentParagraphItems, mathPlaceholders,
          placeholderIndex, blob, returned, zipOpened, postStatus>>

---------------------------------------------------------------------------
(* Bounds and inputs *)

MaxLen == 5

Dollar == "$"
NL == "\n"
CR == "\r"

\* The n-th placeholder token, `__MATH_PLACEHOLDER_${n}__`, as one symbol.
Placeholder(n) == <<"__MATH_PLACEHOLDER_" \o ToString(n) \o "__">>

Alphabet == {Dollar, "a", NL, CR, "&", "__MATH_PLACEHOLDER_0__"}

RECURSIVE StringsOfLen(_)
StringsOfLen(n) ==
    IF n = 0 THEN {<<>>}
    ELSE {Append(s, c) : s \in StringsOfLen(n - 1), c \in Alphabet}

BoundedStrings == UNION {StringsOfLen(n) : n \in 0..MaxLen}

ExBalanced == <<"$","$","a","$","$"," ","a","n","d"," ","$","b","$">>
ExOdd == <<"$","a","$"," ","a","n","d"," ","$","b">>
ExLines == <<"l","i","n","e","1",NL,NL,"l","i","n","e","2">>
ExBlock == <<"p","r","e",NL,NL,"$","$","x","$","$",NL,NL,"p","o","s","t">>
ExAdjacent == <<"$","a","$","$","$","b","$","$","$","c","$">>
ExCrLf == <<"a",CR,NL,CR,NL,"$","b",CR,"c","$",CR,"d">>
ExToken == <<"$","a","$",NL,NL,"__MATH_PLACEHOLDER_1__","$","$","b","$","$">>
ExUnmatched == <<"$","$","a","$","$"," ","$","b","$"," ","$">>
ExEscape == <<"$","a","&","b","$"," ","<","c",">"," ","$","d","$">>

Examples ==
    {ExBalanced, ExOdd, ExLines, ExBlock, ExAdjacent, ExCrLf, ExToken,
     ExUnmatched, ExEscape}

Inputs == BoundedStrings \cup Examples

---------------------------------------------------------------------------
(* String helpers *)

\* JavaScript's s.slice(a, b) with 0 <= a <= b <= s.length
Slice(s, a, b) == SubSeq(s, a + 1, b)

RECURSIVE Concat(_)
Concat(ss) == IF ss = <<>> THEN <<>> ELSE Head(ss) \o Concat(Tail(ss))

StartsWith(s, pat) ==
    /\ Len(pat) <= Len(s)
    /\ SubSeq(s, 1, Len(pat)) = pat

\* s.replace(/pat/g, repl) for a literal pattern: leftmost, non-overlapping
RECURSIVE ReplaceAll(_, _, _)
ReplaceAll(s, pat, repl) ==
    IF s = <<>> THEN <<>>
    ELSE IF StartsWith(s, pat)
         THEN repl \o ReplaceAll(SubSeq(s, Len(pat) + 1, Len(s)), pat, repl)
         ELSE <<Head(s)>> \o ReplaceAll(Tail(s), pat, repl)

Contains(s, pat) ==
    \E i \in 1..(Len(s) - Len(pat) + 1) : SubSeq(s, i, i + Len(pat) - 1) = pat

Occurrences(s, pat) ==
    Cardinality({i \in 1..(Len(s) - Len(pat) + 1) :
                    SubSeq(s, i, i + Len(pat) - 1) = pat})

---------------------------------------------------------------------------
(* The regex /\$\$([^$]+)\$\$|\$([^$]+)\$/g *)

\* The length of the longest run of non-"$" symbols of s from 1-based p:
\* what the greedy [^$]+ takes.  It cannot give a symbol back: the symbol
\* after a shorter body would be a non-"$", where the pattern wants a "$".
RECURSIVE NonDollarRun(_, _)
NonDollarRun(s, p) ==
    IF p > Len(s) \/ s[p] = Dollar THEN 0 ELSE 1 + NonDollarRun(s, p + 1)

IsDollar(s, p) == p >= 1 /\ p <= Len(s) /\ s[p] = Dollar

\* the first alternative, \$\$([^$]+)\$\$, anchored at 1-based p
BlockMatchesAt(s, p) ==
    LET n == NonDollarRun(s, p + 2)
    IN  /\ IsDollar(s, p) /\ IsDollar(s, p + 1)
        /\ n >= 1
        /\ IsDollar(s, p + 2 + n) /\ IsDollar(s, p + 3 + n)

\* the second alternative, \$([^$]+)\$, anchored at 1-based p
InlineMatchesAt(s, p) ==
    LET n == NonDollarRun(s, p + 1)
    IN  /\ IsDollar(s, p)
        /\ n >= 1
        /\ IsDollar(s, p + 1 + n)

MatchesAt(s, p) == BlockMatchesAt(s, p) \/ InlineMatchesAt(s, p)

\* regex.exec finds something at or after the 0-based index from
HasMatch(s, from) == \E p \in (from + 1)..Len(s) : MatchesAt(s, p)

\* The match array of regex.exec(s) with regex.lastIndex = from.  A group
\* that did not take part (undefined in JavaScript) is the empty string
\* here: both are falsy, and a group that took part is never empty.
\* variant: the regex with its second alternative only, /\$([^$]+)\$/g
ExecInlineOnly(s, from) ==
    LET p == CHOOSE q \in (from + 1)..Len(s) :
                 /\ InlineMatchesAt(s, q)
                 /\ \A r \in (from + 1)..(q - 1) : ~InlineMatchesAt(s, r)
    IN  LET n == NonDollarRun(s, p + 1)
        IN  [index |-> p - 1,
             m0 |-> SubSeq(s, p, p + n + 1),
             m1 |-> <<>>,
             m2 |-> SubSeq(s, p + 1, p + n)]
Exec(s, from) ==
    LET p == CHOOSE q \in (from + 1)..Len(s) :
                 /\ MatchesAt(s, q)
                 /\ \A r \in (from + 1)..(q - 1) : ~MatchesAt(s, r)
    IN  IF BlockMatchesAt(s, p)
        THEN LET n == NonDollarRun(s, p + 2)
             IN  [index |-> p - 1,
                  m0 |-> SubSeq(s, p, p + n + 3),
                  m1 |-> SubSeq(s, p + 2, p + n + 1),
                  m2 |-> <<>>]
        ELSE LET n == NonDollarRun(s, p + 1)
             IN  [index |-> p - 1,
                  m0 |-> SubSeq(s, p, p + n + 1),
                  m1 |-> <<>>,
                  m2 |-> SubSeq(s, p + 1, p + n)]

\* const latex = match[1] || match[2];
LatexOf(m) == IF m.m1 # <<>> THEN m.m1 ELSE m.m2

\* const isBlock = !!match[1];
IsBlockOf(m) == m.m1 # <<>>

\* lastIndex = match.index + match[0].length;
\* variant: advancing by the body instead of the whole match
NextLastIndexByLatex(m) == m.index + Len(LatexOf(m))
NextLastIndex(m) == m.index + Len(m.m0)

\* One formula the scan has cut out, with the text before it.
\* outcome: how the conversion of the formula ended in this run
TextSpan(v) ==
    [kind |-> "text", source |-> v, latex |-> <<>>, isBlock |-> FALSE,
     outcome |-> "text"]
FormulaSpan(m, outcome) ==
    [kind |-> "formula", source |-> m.m0, latex |-> LatexOf(m),
     isBlock |-> IsBlockOf(m), outcome |-> outcome]

\* the spans one loop iteration adds: input.slice(lastIndex, match.index),
\* then the match
SpansOfMatch(s, from, m, outcome) ==
    LET textBefore == Slice(s, from, m.index)
    IN  (IF textBefore # <<>> THEN <<TextSpan(textBefore)>> ELSE <<>>)
        \o <<FormulaSpan(m, outcome)>>

\* the span of input.slice(lastIndex) after the loop
SpansOfRest(s, from) ==
    LET textAfter == Slice(s, from, Len(s))
    IN  IF textAfter # <<>> THEN <<TextSpan(textAfter)>> ELSE <<>>

---------------------------------------------------------------------------
(* The external converters: opaque, injective in the model *)

\* Temml writes every character of the source inside an element of its own.
LatexToMathML(latex, displayMode) ==
    <<IF displayMode THEN "<math display=block>" ELSE "<math>">>
    \o [i \in 1..Len(latex) |-> "<mi>" \o latex[i] \o "</mi>"]
    \o <<"</math>">>

MathmlToOmml(mathml) == <<"<m:oMath>">> \o mathml \o <<"</m:oMath>">>

---------------------------------------------------------------------------
(* parseForDisplay's helpers *)

EscapeHtml(t) ==
    ReplaceAll(ReplaceAll(ReplaceAll(t, <<"&">>, <<"&", "a", "m", "p", ";">>),
                          <<"<">>, <<"&", "l", "t", ";">>),
               <<">">>, <<"&", "g", "t", ";">>)

EscapeAndFormat(t) ==
    ReplaceAll(ReplaceAll(ReplaceAll(EscapeHtml(t), <<CR, NL>>, <<"<br>">>),
                          <<NL>>, <<"<br>">>),
               <<CR>>, <<"<br>">>)

\* variant: the error span without escapeHtml
ErrorSpanUnescaped(m0) == <<"<span class=error>">> \o m0 \o <<"</span>">>
ErrorSpan(m0) == <<"<span class=error>">> \o EscapeHtml(m0) \o <<"</span>">>

FormulaMarkup(latex, isBlock, mathml) ==
    <<"<span class=math-formula data-latex=">>
    \o ReplaceAll(EscapeHtml(latex), <<"\"">>, <<"&", "q", "u", "o", "t", ";">>)
    \o <<" data-block=", IF isBlock THEN "true" ELSE "false", ">">>
    \o mathml \o <<"</span>">>

---------------------------------------------------------------------------
(* generateDocx's helpers *)

\* input.replace(/\r\n/g, "\n").replace(/\r/g, "\n")
Normalize(t) == ReplaceAll(ReplaceAll(t, <<CR, NL>>, <<NL>>), <<CR>>, <<NL>>)

TextItem(v) == [type |-> "text", value |-> v, omml |-> <<>>, isBlock |-> FALSE]
MathItem(omml, isBlock) ==
    [type |-> "math", value |-> <<>>, omml |-> omml, isBlock |-> isBlock]

\* the catch branch: items.push({ type: "text", value: match[0] })
\* variant: falling back to the body without its delimiters
FallbackItemLatexOnly(m) == TextItem(LatexOf(m))
FallbackItem(m) == TextItem(m.m0)

\* the entries of currentParagraphItems
TextEntry(v) == [type |-> "text", value |-> v, id |-> <<>>]
PlaceholderEntry(id) == [type |-> "placeholder", value |-> <<>>, id |-> id]

\* new TextRun(item.value) or new TextRun(item.id): the run's text
TextRun(entry) == IF entry.type = "text" THEN entry.value ELSE entry.id

NewParagraph(children, alignment) ==
    [children |-> children, alignment |-> alignment]

\* new Paragraph({ children: [new TextRun(placeholder)],
\*                 alignment: AlignmentType.CENTER })
\* variant: the block paragraph left-aligned
BlockParagraphLeft(placeholder) == NewParagraph(<<placeholder>>, "left")
BlockParagraph(placeholder) == NewParagraph(<<placeholder>>, "center")

\* flushParagraph(alignment), on the pair (paragraphs, currentParagraphItems)
\* variant: flushing without the two emptiness guards
FlushParagraphUnguarded(paras, cur, alignment) ==
    [paragraphs |->
         Append(paras,
                NewParagraph([i \in 1..Len(cur) |-> TextRun(cur[i])], alignment)),
     current |-> <<>>]
FlushParagraph(paras, cur, alignment) ==
    IF Len(cur) = 0
    THEN [paragraphs |-> paras, current |-> cur]
    ELSE LET children == [i \in 1..Len(cur) |-> TextRun(cur[i])]
         IN  [paragraphs |->
                  IF Len(children) > 0
                  THEN Append(paras, NewParagraph(children, alignment))
                  ELSE paras,
              current |-> <<>>]

\* the length of the run of newlines of s from 1-based p
RECURSIVE NewlineRun(_, _)
NewlineRun(s, p) ==
    IF p > Len(s) \/ s[p] # NL THEN 0 ELSE 1 + NewlineRun(s, p + 1)

\* s.split(/\n\n+/): start is where the current part begins, p where the
\* regex is tried next (both 1-based)
RECURSIVE SplitFrom(_, _, _)
SplitFrom(s, start, p) ==
    IF p > Len(s) THEN <<SubSeq(s, start, Len(s))>>
    ELSE LET n == NewlineRun(s, p)
         IN  IF n >= 2
             THEN <<SubSeq(s, start, p - 1)>> \o SplitFrom(s, p + n, p + n)
             ELSE SplitFrom(s, start, p + 1)

\* variant: no split at blank lines
SplitParagraphsNever(s) == <<s>>
SplitParagraphs(s) == SplitFrom(s, 1, 1)

\* part.replace(/\n/g, " ")
CleanedText(part) == ReplaceAll(part, <<NL>>, <<" ">>)

\* the loop over parts of the text branch, from part i on
RECURSIVE TextPartsFrom(_, _, _)
TextPartsFrom(parts, i, st) ==
    IF i > Len(parts) THEN st
    ELSE LET flushed == IF i > 1
                        THEN FlushParagraph(st.paragraphs, st.current, "left")
                        ELSE st
             cleanedText == CleanedText(parts[i])
             pushed == IF cleanedText # <<>>
                       THEN [flushed EXCEPT
                                !.current = Append(@, TextEntry(cleanedText))]
                       ELSE flushed
         IN  TextPartsFrom(parts, i + 1, pushed)

\* Map.prototype.set on the insertion-ordered map
MapHas(map, key) == \E i \in 1..Len(map) : map[i][1] = key
MapSet(map, key, value) ==
    IF MapHas(map, key)
    THEN [i \in 1..Len(map) |->
             IF map[i][1] = key THEN <<key, value>> ELSE map[i]]
    ELSE Append(map, <<key, value>>)

\* word/document.xml as the Document Builder writes it: one run element per
\* TextRun, its text XML-escaped
XmlEscape(t) ==
    ReplaceAll(ReplaceAll(t, <<"&">>, <<"&", "a", "m", "p", ";">>),
               <<"<">>, <<"&", "l", "t", ";">>)

RunXml(t) == <<"<w:r>", "<w:t>">> \o XmlEscape(t) \o <<"</w:t>", "</w:r>">>

ParagraphXml(para) ==
    <<IF para.alignment = "center" THEN "<w:p jc=center>" ELSE "<w:p>">>
    \o Concat([i \in 1..Len(para.children) |-> RunXml(para.children[i])])
    \o <<"</w:p>">>

DocumentXml(paras) ==
    <<"<w:body>">>
    \o Concat([i \in 1..Len(paras) |-> ParagraphXml(paras[i])])
    \o <<"</w:body>">>

PackerToBlob(paras) == [producer |-> "Packer.toBlob", body |-> DocumentXml(paras)]

\* <w:r[^>]*>\s*<w:t[^>]*>${placeholder}</w:t>\s*</w:r>
PlaceholderPattern(placeholder) ==
    <<"<w:r>", "<w:t>">> \o placeholder \o <<"</w:t>", "</w:r>">>

\* the loop over mathPlaceholders, from entry i on
RECURSIVE ReplacePlaceholdersFrom(_, _, _)
ReplacePlaceholdersFrom(xml, map, i) ==
    IF i > Len(map) THEN xml
    ELSE ReplacePlaceholdersFrom(
             ReplaceAll(xml, PlaceholderPattern(map[i][1]), map[i][2]),
             map, i + 1)

---------------------------------------------------------------------------
(* Initial state and the preview renderer *)

NoContainer == [producer |-> "none", body |-> <<>>]

Init ==
    /\ input \in Inputs
    /\ op = "none"
    /\ pc = "idle"
    /\ text = <<>>
    /\ lastIndex = 0
    /\ spans = <<>>
    /\ result = <<>>
    /\ items = <<>>
    /\ itemIdx = 0
    /\ paragraphs = <<>>
    /\ currentParagraphItems = <<>>
    /\ mathPlaceholders = <<>>
    /\ placeholderIndex = 0
    /\ blob = NoContainer
    /\ returned = NoContainer
    /\ zipOpened = FALSE
    /\ postStatus = "none"

docxVars == <<items, itemIdx, paragraphs, currentParagraphItems,
              mathPlaceholders, placeholderIndex, blob, returned, zipOpened,
              postStatus>>

\* parseForDisplay(input) is entered
DisplayStart ==
    /\ pc = "idle"
    /\ op' = "display"
    /\ pc' = "scan"
    /\ text' = input
    /\ UNCHANGED <<input, lastIndex, spans, result, docxVars>>

\* one iteration of the while loop, latexToMathML returning
DisplayFormula ==
    /\ op = "display" /\ pc = "scan"
    /\ HasMatch(text, lastIndex)
    /\ LET m == Exec(text, lastIndex)
       IN  /\ result' = result
                  \o EscapeAndFormat(Slice(text, lastIndex, m.index))
                  \o FormulaMarkup(LatexOf(m), IsBlockOf(m),
                                   LatexToMathML(LatexOf(m), IsBlockOf(m)))
           /\ spans' = spans \o SpansOfMatch(text, lastIndex, m, "converted")
           /\ lastIndex' = NextLastIndex(m)
    /\ UNCHANGED <<input, op, pc, text, docxVars>>

\* one iteration of the while loop, latexToMathML throwing
DisplayError ==
    /\ op = "display" /\ pc = "scan"
    /\ HasMatch(text, lastIndex)
    /\ LET m == Exec(text, lastIndex)
       IN  /\ result' = result
                  \o EscapeAndFormat(Slice(text, lastIndex, m.index))
                  \o ErrorSpan(m.m0)
           /\ spans' = spans \o SpansOfMatch(text, lastIndex, m, "latexToMathML threw")
           /\ lastIndex' = NextLastIndex(m)
    /\ UNCHANGED <<input, op, pc, text, docxVars>>

\* regex.exec returns null: the rest is appended and the string returned
DisplayReturn ==
    /\ op = "display" /\ pc = "scan"
    /\ ~HasMatch(text, lastIndex)
    /\ result' = result \o EscapeAndFormat(Slice(text, lastIndex, Len(text)))
    /\ spans' = spans \o SpansOfRest(text, lastIndex)
    /\ lastIndex' = Len(text)
    /\ pc' = "done"
    /\ UNCHANGED <<input, op, text, docxVars>>

---------------------------------------------------------------------------
(* generateDocx *)

scanVars == <<text, lastIndex, spans>>
assembleVars == <<itemIdx, paragraphs, currentParagraphItems,
                  mathPlaceholders, placeholderIndex>>
postVars == <<blob, returned, zipOpened, postStatus>>

\* generateDocx(input) is entered: the line endings are normalised
DocxStart ==
    /\ pc = "idle"
    /\ op' = "docx"
    /\ pc' = "scan"
    /\ text' = Normalize(input)
    /\ UNCHANGED <<input, lastIndex, spans, result, docxVars>>

\* one iteration of the while loop, both converters returning
DocxFormula ==
    /\ op = "docx" /\ pc = "scan"
    /\ HasMatch(text, lastIndex)
    /\ LET m == Exec(text, lastIndex)
           textBefore == Slice(text, lastIndex, m.index)
           omml == MathmlToOmml(LatexToMathML(LatexOf(m), IsBlockOf(m)))
       IN  /\ items' = (IF textBefore # <<>>
                        THEN Append(items, TextItem(textBefore)) ELSE items)
                       \o <<MathItem(omml, IsBlockOf(m))>>
           /\ spans' = spans \o SpansOfMatch(text, lastIndex, m, "converted")
           /\ lastIndex' = NextLastIndex(m)
    /\ UNCHANGED <<input, op, pc, text, result, assembleVars, postVars>>

\* one iteration of the while loop, one of the converters throwing
DocxFallback ==
    /\ op = "docx" /\ pc = "scan"
    /\ HasMatch(text, lastIndex)
    /\ \E thrower \in {"latexToMathML threw", "mathmlToOmml threw"} :
         LET m == Exec(text, lastIndex)
             textBefore == Slice(text, lastIndex, m.index)
         IN  /\ items' = (IF textBefore # <<>>
                          THEN Append(items, TextItem(textBefore)) ELSE items)
                         \o <<FallbackItem(m)>>
             /\ spans' = spans \o SpansOfMatch(text, lastIndex, m, thrower)
             /\ lastIndex' = NextLastIndex(m)
    /\ UNCHANGED <<input, op, pc, text, result, assembleVars, postVars>>

\* regex.exec returns null: the text after the last match is pushed
DocxScanEnd ==
    /\ op = "docx" /\ pc = "scan"
    /\ ~HasMatch(text, lastIndex)
    /\ LET textAfter == Slice(text, lastIndex, Len(text))
       IN  items' = IF textAfter # <<>>
                    THEN Append(items, TextItem(textAfter)) ELSE items
    /\ spans' = spans \o SpansOfRest(text, lastIndex)
    /\ pc' = "assemble"
    /\ UNCHANGED <<input, op, text, lastIndex, result, assembleVars, postVars>>

\* for (const item of items): a block formula
AssembleBlockMath ==
    /\ op = "docx" /\ pc = "assemble"
    /\ itemIdx < Len(items)
    /\ LET item == items[itemIdx + 1]
           flushed == FlushParagraph(paragraphs, currentParagraphItems, "left")
           placeholder == Placeholder(placeholderIndex)
       IN  /\ item.type = "math" /\ item.isBlock
           /\ mathPlaceholders' = MapSet(mathPlaceholders, placeholder, item.omml)
           /\ placeholderIndex' = placeholderIndex + 1
           /\ paragraphs' = Append(flushed.paragraphs,
                                   BlockParagraph(placeholder))
           /\ currentParagraphItems' = flushed.current
    /\ itemIdx' = itemIdx + 1
    /\ UNCHANGED <<input, op, pc, scanVars, result, items, postVars>>

\* for (const item of items): an inline formula
AssembleInlineMath ==
    /\ op = "docx" /\ pc = "assemble"
    /\ itemIdx < Len(items)
    /\ LET item == items[itemIdx + 1]
           placeholder == Placeholder(placeholderIndex)
       IN  /\ item.type = "math" /\ ~item.isBlock
           /\ mathPlaceholders' = MapSet(mathPlaceholders, placeholder, item.omml)
           /\ placeholderIndex' = placeholderIndex + 1
           /\ currentParagraphItems' =
                  Append(currentParagraphItems, PlaceholderEntry(placeholder))
    /\ itemIdx' = itemIdx + 1
    /\ UNCHANGED <<input, op, pc, scanVars, result, items, paragraphs, postVars>>

\* for (const item of items): text, split at the blank lines
AssembleText ==
    /\ op = "docx" /\ pc = "assemble"
    /\ itemIdx < Len(items)
    /\ LET item == items[itemIdx + 1]
           st == TextPartsFrom(SplitParagraphs(item.value), 1,
                               [paragraphs |-> paragraphs,
                                current |-> currentParagraphItems])
       IN  /\ item.type = "text"
           /\ paragraphs' = st.paragraphs
           /\ currentParagraphItems' = st.current
    /\ itemIdx' = itemIdx + 1
    /\ UNCHANGED <<input, op, pc, scanVars, result, items, mathPlaceholders,
                   placeholderIndex, postVars>>

\* after the loop: the last flush, new Document, await Packer.toBlob(doc)
DocxPack ==
    /\ op = "docx" /\ pc = "assemble"
    /\ itemIdx = Len(items)
    /\ LET flushed == FlushParagraph(paragraphs, currentParagraphItems, "left")
       IN  /\ paragraphs' = flushed.paragraphs
           /\ currentParagraphItems' = flushed.current
           /\ blob' = PackerToBlob(flushed.paragraphs)
    /\ pc' = "packed"
    /\ UNCHANGED <<input, op, scanVars, result, items, itemIdx,
                   mathPlaceholders, placeholderIndex, returned, zipOpened,
                   postStatus>>

\* if (mathPlaceholders.size === 0) return blob;
\* variant: the early return never taken
NoMathNever == FALSE
NoMath == Len(mathPlaceholders) = 0

DocxReturnNoMath ==
    /\ op = "docx" /\ pc = "packed"
    /\ NoMath
    /\ returned' = blob
    /\ pc' = "done"
    /\ UNCHANGED <<input, op, scanVars, result, items, assembleVars, blob,
                   zipOpened, postStatus>>

\* JSZip.loadAsync or the read of word/document.xml rejects: nothing
\* catches it, and generateDocx's promise rejects
DocxPostRejects ==
    /\ op = "docx" /\ pc = "packed"
    /\ ~NoMath
    /\ zipOpened' = TRUE
    /\ postStatus' = "body unreadable"
    /\ pc' = "rejected"
    /\ UNCHANGED <<input, op, scanVars, result, items, assembleVars, blob,
                   returned>>

\* zip.file("word/document.xml") is null, or its content the empty string:
\* if (!documentXml) return blob;
DocxPostNoBody ==
    /\ op = "docx" /\ pc = "packed"
    /\ ~NoMath
    /\ zipOpened' = TRUE
    /\ postStatus' = "body missing"
    /\ returned' = blob
    /\ pc' = "done"
    /\ UNCHANGED <<input, op, scanVars, result, items, assembleVars, blob>>

\* the placeholders are replaced and the archive written again
DocxPostSubstitute ==
    /\ op = "docx" /\ pc = "packed"
    /\ ~NoMath
    /\ zipOpened' = TRUE
    /\ postStatus' = "substituted"
    /\ returned' = [producer |-> "zip.generateAsync",
                    body |-> ReplacePlaceholdersFrom(blob.body,
                                                     mathPlaceholders, 1)]
    /\ pc' = "done"
    /\ UNCHANGED <<input, op, scanVars, result, items, assembleVars, blob>>

Next ==
    \/ DisplayStart
    \/ DisplayFormula
    \/ DisplayError
    \/ DisplayReturn
    \/ DocxStart
    \/ DocxFormula
    \/ DocxFallback
    \/ DocxScanEnd
    \/ AssembleBlockMath
    \/ AssembleInlineMath
    \/ AssembleText
    \/ DocxPack
    \/ DocxReturnNoMath
    \/ DocxPostRejects
    \/ DocxPostNoBody
    \/ DocxPostSubstitute

Spec == Init /\ [][Next]_vars

---------------------------------------------------------------------------
(* Properties *)

ScanOver == pc \in {"assemble", "packed", "done", "rejected"}
Assembled == op = "docx" /\ pc \in {"packed", "done", "rejected"}

SpanSources == [i \in 1..Len(spans) |-> spans[i].source]

FormulaSpans == {i \in 1..Len(spans) : spans[i].kind = "formula"}
ConvertedSpans == {i \in FormulaSpans : spans[i].outcome = "converted"}
FailedSpans == FormulaSpans \ ConvertedSpans

\* C1: in both scans, the sources of the spans cut out so far (text spans
\* and the delimited formulas, delimiters included), concatenated in
\* order, are exactly the scanned prefix of the string, and the whole
\* string once the scan is over, whatever the converters did.
C1_RoundTripCoverage ==
    /\ pc = "scan" => Concat(SpanSources) = Slice(text, 0, lastIndex)
    /\ ScanOver => Concat(SpanSources) = text

\* C1's case: a finished scan with text, a converted and a failed formula
C1_Witness ==
    /\ ScanOver
    /\ ConvertedSpans # {}
    /\ FailedSpans # {}
    /\ \E i \in 1..Len(spans) : spans[i].kind = "text"

\* The reference scanner of C2: left to right, at each position the block
\* form, then the inline form, else the symbol is literal text.
RefBody(s, p, n) == \A k \in p..(p + n - 1) : k <= Len(s) /\ s[k] # Dollar

RefBlockBodies(s, p) ==
    {n \in 1..Len(s) :
        /\ p + n + 3 <= Len(s)
        /\ s[p] = Dollar /\ s[p + 1] = Dollar
        /\ RefBody(s, p + 2, n)
        /\ s[p + n + 2] = Dollar /\ s[p + n + 3] = Dollar}

RefInlineBodies(s, p) ==
    {n \in 1..Len(s) :
        /\ p + n + 1 <= Len(s)
        /\ s[p] = Dollar
        /\ RefBody(s, p + 1, n)
        /\ s[p + n + 1] = Dollar}

RefText(pending) == IF pending = <<>> THEN <<>> ELSE <<<<"text", pending, FALSE>>>>

RECURSIVE RefScan(_, _, _)
RefScan(s, p, pending) ==
    IF p > Len(s) THEN RefText(pending)
    ELSE IF RefBlockBodies(s, p) # {}
    THEN LET n == CHOOSE k \in RefBlockBodies(s, p) : TRUE
         IN  RefText(pending)
             \o <<<<"formula", SubSeq(s, p + 2, p + n + 1), TRUE>>>>
             \o RefScan(s, p + n + 4, <<>>)
    ELSE IF RefInlineBodies(s, p) # {}
    THEN LET n == CHOOSE k \in RefInlineBodies(s, p) : TRUE
         IN  RefText(pending)
             \o <<<<"formula", SubSeq(s, p + 1, p + n), FALSE>>>>
             \o RefScan(s, p + n + 2, <<>>)
    ELSE RefScan(s, p + 1, Append(pending, s[p]))

SpanShape(sp) ==
    <<sp.kind, IF sp.kind = "text" THEN sp.source ELSE sp.latex, sp.isBlock>>

SpanShapes == [i \in 1..Len(spans) |-> SpanShape(spans[i])]

\* C2: once the scan is over, its spans are the reference scanner's; a
\* formula is block exactly when its source is its body between doubled
\* markers, and inline formulas are their body between single markers;
\* bodies are non-empty and free of "$"; the two examples give the spans
\* the claim lists.
C2_ScanIsReference ==
    ScanOver =>
        /\ SpanShapes = RefScan(text, 1, <<>>)
        /\ \A i \in FormulaSpans :
              /\ spans[i].latex # <<>>
              /\ ~Contains(spans[i].latex, <<Dollar>>)
              /\ spans[i].isBlock <=>
                    spans[i].source =
                        <<Dollar, Dollar>> \o spans[i].latex \o <<Dollar, Dollar>>
              /\ ~spans[i].isBlock <=>
                    spans[i].source = <<Dollar>> \o spans[i].latex \o <<Dollar>>
        /\ input = ExBalanced =>
              SpanShapes = << <<"formula", <<"a">>, TRUE>>,
                              <<"text", <<" ", "a", "n", "d", " ">>, FALSE>>,
                              <<"formula", <<"b">>, FALSE>> >>
        /\ input = ExOdd =>
              SpanShapes = << <<"formula", <<"a">>, FALSE>>,
                              <<"text", <<" ", "a", "n", "d", " ", Dollar, "b">>,
                                FALSE>> >>

\* C2's case: a finished scan that met a block formula, an inline formula
\* and a marker left in a text span
C2_Witness ==
    /\ ScanOver
    /\ \E i \in FormulaSpans : spans[i].isBlock
    /\ \E i \in FormulaSpans : ~spans[i].isBlock
    /\ \E i \in 1..Len(spans) :
          spans[i].kind = "text" /\ Contains(spans[i].source, <<Dollar>>)

PlaceholderKeys == {mathPlaceholders[i][1] : i \in 1..Len(mathPlaceholders)}
MathItems == {i \in 1..Len(items) : items[i].type = "math"}

\* C3: after assembly there are as many distinct placeholder tokens as
\* math items, each token occurs exactly once in the document body built
\* from the paragraph tree, and none occurs in the body after
\* substitution.
C3_PlaceholderUniqueness ==
    Assembled =>
        /\ Cardinality(PlaceholderKeys) = Cardinality(MathItems)
        /\ \A key \in PlaceholderKeys : Occurrences(blob.body, key) = 1
        /\ postStatus = "substituted" =>
              \A key \in PlaceholderKeys : ~Contains(returned.body, key)



\* the item the scan should have pushed for a span
ExpectedItem(sp) ==
    IF sp.kind = "formula" /\ sp.outcome = "converted"
    THEN MathItem(MathmlToOmml(LatexToMathML(sp.latex, sp.isBlock)), sp.isBlock)
    ELSE TextItem(sp.source)

\* C4: in generateDocx the items are the spans in order, a formula either
\* converter failed on being a text item whose value is the delimited
\* source; placeholders are registered for the converted formulas only;
\* the scan goes on to the end of the text and every item is assembled;
\* the promise is rejected only by the post-processing of a document with
\* a converted formula.
C4_FailedFormulaDegradesToText ==
    op = "docx" =>
        /\ items = [i \in 1..Len(spans) |-> ExpectedItem(spans[i])]
        /\ \A i \in FailedSpans :
              /\ items[i].type = "text"
              /\ items[i].value = spans[i].source
              /\ items[i].value # spans[i].latex
        /\ ScanOver => Concat(SpanSources) = text
        /\ Assembled =>
              /\ itemIdx = Len(items)
              /\ Len(mathPlaceholders) = Cardinality(ConvertedSpans)
              /\ placeholderIndex = Cardinality(ConvertedSpans)
        /\ pc = "rejected" =>
              postStatus = "body unreadable" /\ ConvertedSpans # {}

\* C4's case: an export that ended after either converter failed on a
\* formula and a later formula was converted
C4_Witness ==
    /\ op = "docx" /\ pc = "done"
    /\ \E i, j, k \in FormulaSpans :
          /\ i < k /\ j < k
          /\ spans[i].outcome = "latexToMathML threw"
          /\ spans[j].outcome = "mathmlToOmml threw"
          /\ spans[k].outcome = "converted"

\* the number of math items among the first n items
MathItemsBefore(n) == Cardinality({i \in MathItems : i < n})

CenteredParagraphs ==
    {i \in 1..Len(paragraphs) : paragraphs[i].alignment = "center"}

Last(seq) == seq[Len(seq)]

\* C5: right after the loop has consumed a block formula the builder is
\* empty and the last paragraph is centered with the formula's placeholder
\* as its only entry; there are as many centered paragraphs as consumed
\* block formulas, each with one entry, a registered placeholder; the
\* example gives the three paragraphs the claim lists.
C5_BlockMathIsolation ==
    (op = "docx" /\ ScanOver) =>
        /\ (pc = "assemble" /\ itemIdx >= 1 /\ items[itemIdx].type = "math"
                /\ items[itemIdx].isBlock) =>
              /\ currentParagraphItems = <<>>
              /\ Last(paragraphs) =
                    NewParagraph(<<Placeholder(MathItemsBefore(itemIdx))>>,
                                 "center")
        /\ Cardinality(CenteredParagraphs) =
              Cardinality({i \in MathItems : i <= itemIdx /\ items[i].isBlock})
        /\ \A i \in CenteredParagraphs :
              /\ Len(paragraphs[i].children) = 1
              /\ paragraphs[i].children[1] \in PlaceholderKeys
        /\ (input = ExBlock /\ Assembled /\ FailedSpans = {}) =>
              paragraphs = << NewParagraph(<< <<"p", "r", "e">> >>, "left"),
                              NewParagraph(<< Placeholder(0) >>, "center"),
                              NewParagraph(<< <<"p", "o", "s", "t">> >>, "left") >>

\* C5's case: a block formula assembled after a paragraph that was open,
\* and text assembled after the formula
C5_Witness ==
    /\ Assembled
    /\ \E i \in CenteredParagraphs :
          /\ i > 1 /\ i < Len(paragraphs)
          /\ paragraphs[i - 1].alignment = "left"
          /\ paragraphs[i + 1].alignment = "left"

\* The reference of C6: a newline with a newline next to it belongs to a
\* blank-line run; a segment is a maximal stretch without such newlines.
InBlankRun(s, i) ==
    /\ s[i] = NL
    /\ \/ (i > 1 /\ s[i - 1] = NL)
       \/ (i < Len(s) /\ s[i + 1] = NL)

SegmentStarts(s) ==
    {i \in 1..Len(s) : ~InBlankRun(s, i) /\ (i = 1 \/ InBlankRun(s, i - 1))}

SegmentEnd(s, a) ==
    CHOOSE b \in a..Len(s) :
        /\ \A k \in a..b : ~InBlankRun(s, k)
        /\ (b = Len(s) \/ InBlankRun(s, b + 1))

\* the n-th smallest element of a set of numbers
NthOf(S, n) == CHOOSE x \in S : Cardinality({y \in S : y < x}) = n - 1

SpacesForNewlines(seg) ==
    [i \in 1..Len(seg) |-> IF seg[i] = NL THEN " " ELSE seg[i]]

RefParagraphs(s) ==
    [n \in 1..Cardinality(SegmentStarts(s)) |->
        LET a == NthOf(SegmentStarts(s), n)
        IN  NewParagraph(<<SpacesForNewlines(SubSeq(s, a, SegmentEnd(s, a)))>>,
                         "left")]

\* C6: for a text without formulas, the paragraphs are one left paragraph
\* of one run per non-empty segment between blank-line runs, the segment's
\* single newlines turned into spaces; the example gives two paragraphs.
C6_ParagraphsOfPlainText ==
    (Assembled /\ FormulaSpans = {}) =>
        /\ paragraphs = RefParagraphs(text)
        /\ \A i \in 1..Len(paragraphs) :
              /\ Len(paragraphs[i].children) = 1
              /\ ~Contains(paragraphs[i].children[1], <<NL>>)
        /\ input = ExLines =>
              paragraphs =
                  << NewParagraph(<< <<"l", "i", "n", "e", "1">> >>, "left"),
                     NewParagraph(<< <<"l", "i", "n", "e", "2">> >>, "left") >>

\* C6's case: a text without formulas, with a blank-line run and a single
\* newline, assembled into two paragraphs or more
C6_Witness ==
    /\ Assembled /\ FormulaSpans = {}
    /\ Len(paragraphs) >= 2
    /\ \E i \in 1..Len(text) : text[i] = NL /\ ~InBlankRun(text, i)
    /\ \E i \in 1..Len(paragraphs) : Contains(paragraphs[i].children[1], <<" ">>)

\* C7: whenever the post-processing could not run, because the body part
\* is missing or cannot be read, the export ends with the container the
\* Document Builder made.
C7_PostProcessFailureReturnsOriginal ==
    postStatus \in {"body missing", "body unreadable"} =>
        pc = "done" /\ returned = blob

\* C8: an export whose placeholder map is empty, as it is when the scan
\* found no formula, never opens the archive, is not rejected, and ends
\* with the container the Document Builder made of the paragraphs.
C8_NoMathFastPath ==
    /\ (Assembled /\ FormulaSpans = {}) => mathPlaceholders = <<>>
    /\ (Assembled /\ mathPlaceholders = <<>>) =>
          /\ ~zipOpened
          /\ postStatus = "none"
          /\ pc # "rejected"
          /\ pc = "done" => returned = blob /\ blob = PackerToBlob(paragraphs)

\* C8's case: a finished export of a text in which the scan found nothing
C8_Witness ==
    /\ op = "docx" /\ pc = "done"
    /\ FormulaSpans = {}
    /\ Len(paragraphs) >= 1

\* the escaping of C9, symbol by symbol
EscapedSymbol(c) ==
    CASE c = "&" -> <<"&", "a", "m", "p", ";">>
      [] c = "<" -> <<"&", "l", "t", ";">>
      [] c = ">" -> <<"&", "g", "t", ";">>
      [] OTHER -> <<c>>

RefEscaped(t) == Concat([i \in 1..Len(t) |-> EscapedSymbol(t[i])])

RenderedSpan(sp) ==
    IF sp.kind = "text" THEN EscapeAndFormat(sp.source)
    ELSE IF sp.outcome = "converted"
    THEN FormulaMarkup(sp.latex, sp.isBlock, LatexToMathML(sp.latex, sp.isBlock))
    ELSE <<"<span class=error>">> \o RefEscaped(sp.source) \o <<"</span>">>

\* C9: parseForDisplay is always scanning or returned; its result is the
\* rendering of the spans in order, a formula the converter failed on
\* being its escaped delimited source inside the error marker; when it
\* returns, the spans cover the whole input.
C9_PreviewNeverThrows ==
    op = "display" =>
        /\ pc \in {"scan", "done"}
        /\ result = Concat([i \in 1..Len(spans) |-> RenderedSpan(spans[i])])
        /\ pc = "done" => Concat(SpanSources) = input

\* C9's case: a returned preview with a failed formula that needed
\* escaping, followed by a converted one
C9_Witness ==
    /\ op = "display" /\ pc = "done"
    /\ \E i, j \in FormulaSpans :
          /\ i < j
          /\ spans[i].outcome = "latexToMathML threw"
          /\ Contains(spans[i].source, <<"&">>)
          /\ spans[j].outcome = "converted"

\* C10: no paragraph is empty, no run of a paragraph is the empty string,
\* and no text entry of the builder is the empty string.
C10_NoEmptyParagraph ==
    /\ \A i \in 1..Len(paragraphs) :
          /\ Len(paragraphs[i].children) >= 1
          /\ \A k \in 1..Len(paragraphs[i].children) :
                paragraphs[i].children[k] # <<>>
    /\ \A i \in 1..Len(currentParagraphItems) :
          currentParagraphItems[i].type = "text" =>
              currentParagraphItems[i].value # <<>>

\* C10's case: an assembled text that begins with a blank-line run, where
\* the builder was flushed while empty, and has a paragraph
C10_Witness ==
    /\ Assembled
    /\ Len(text) >= 3 /\ text[1] = NL /\ text[2] = NL
    /\ Len(paragraphs) >= 1

===========================================================================
